---------------------------- MODULE Spec2Model ----------------------------
(***************************************************************************)
(* A model of den_social/main/fetch_events.py: the crawl loop of           *)
(* crawl_events and the pure functions it is built from                    *)
(* (parse_events_from_jsonld, in_geofence, parse_iso_to_local,             *)
(* within_future_window, dedupe_events, sort_events).                      *)
(*                                                                         *)
(* Python values are tagged records ([t |-> "null"], [t |-> "str", ...],   *)
(* [t |-> "float", ...], [t |-> "dict", ...]) so that isinstance tests,    *)
(* truthiness and "is None" are computed as the source computes them.      *)
(* A str is a sequence of character codes (ASCII), so strip, lower,        *)
(* substring search, joining and ordering are computed, not tabulated.     *)
(* Times are whole hours since an epoch; a day is 24 hours.                *)
(***************************************************************************)
EXTENDS Integers, Sequences, FiniteSets, TLC

VARIABLES
    \* ---- module level ----
    _tz,            \* the configured zone, None when ZoneInfo(TIMEZONE) raised
    \* ---- crawl_events ----
    SOURCE_PAGES,   \* the configured seed list
    pc,             \* where crawl_events is: "seed" (line 427), "links" (line 439),
                    \* "filter" (line 454), "done" (returned), "raised" (an exception left it)
    seedIdx,        \* index in seeds of the seed the loop is at
    links,          \* detail links of the current seed still to fetch
    all_events,     \* the accumulated list
    filtered,       \* the returned list (once pc = "done")
    fetched,        \* history: every call of fetch, in order, with the seed it was
                    \* made for and len(all_events) at the call
    err,            \* the exception that ended the crawl, "" if none
    \* ---- the pure functions, applied to drawn inputs ----
    phase,          \* which of them has been applied
    inList,         \* an input list of Events
    deduped,        \* dedupe_events(inList)
    sorted,         \* sort_events(inList)
    once,           \* the reduction pipeline applied to inList
    twice,          \* the reduction pipeline applied to once
    node,           \* a structured-data node of type Event
    built,          \* parse_events_from_jsonld([node], page)
    accepted,       \* in_geofence of the built Event
    windowEv,       \* an Event given to within_future_window
    windowOut,      \* within_future_window(windowEv)
    linkItems,      \* the itemListElement entries of a page
    linkLimit,      \* the limit given to discover_event_links_from_jsonld
    linkOut         \* discover_event_links_from_jsonld(linkItems, S1, linkLimit)

crawlVars == <<_tz, SOURCE_PAGES, pc, seedIdx, links, all_events, filtered, fetched, err>>
reduceVars == <<inList, deduped, sorted, once, twice>>
buildVars == <<node, built, accepted, phase>>
windowVars == <<windowEv, windowOut>>
linkVars == <<linkItems, linkLimit, linkOut>>
vars == <<crawlVars, reduceVars, buildVars, windowVars, linkVars>>

-----------------------------------------------------------------------------
(* Python values *)

None == [t |-> "null"]
Str(s) == [t |-> "str", s |-> s]
Float(v) == [t |-> "float", cls |-> "fin", v |-> v]
Inf == [t |-> "float", cls |-> "inf", v |-> 0]
NaN == [t |-> "float", cls |-> "nan", v |-> 0]
\* An absolute URL string, or a relative one (host = "").
Url(host, path) == [t |-> "url", host |-> host, path |-> path]
\* An exception propagating out of a function.
Raise(name) == [t |-> "raise", exc |-> name]
\* True or False
Bool(b) == [t |-> "bool", v |-> b]

IsStr(v) == v.t \in {"str", "url", "datestr"}
IsDict(v) == v.t = "dict"
IsList(v) == v.t = "list"

\* bool(v): None, "", 0.0, {} and [] are false.
Truthy(v) ==
    CASE v.t = "null" -> FALSE
      [] v.t = "str" -> v.s # <<>>
      [] v.t = "float" -> ~(v.cls = "fin" /\ v.v = 0)
      [] v.t = "list" -> v.items # <<>>
      [] v.t = "dict" -> DOMAIN v # {"t"}
      [] v.t = "bool" -> v.v
      [] OTHER -> TRUE

\* d.get(k): a dict is a record of its present keys (and t)
Get(d, k) == IF k \in DOMAIN d THEN d[k] ELSE None

\* a or b
Or(a, b) == IF Truthy(a) THEN a ELSE b

-----------------------------------------------------------------------------
(* str operations on sequences of character codes *)

IsSpace(c) == c \in {9, 10, 11, 12, 13, 32}
LowerChar(c) == IF c >= 65 /\ c <= 90 THEN c + 32 ELSE c
Lower(s) == [i \in 1..Len(s) |-> LowerChar(s[i])]

RECURSIVE LStrip(_)
LStrip(s) == IF s # <<>> /\ IsSpace(Head(s)) THEN LStrip(Tail(s)) ELSE s

RECURSIVE RStrip(_)
RStrip(s) ==
    IF s # <<>> /\ IsSpace(s[Len(s)]) THEN RStrip(SubSeq(s, 1, Len(s) - 1)) ELSE s

Strip(s) == RStrip(LStrip(s))

\* needle in hay
Contains(needle, hay) ==
    \E i \in 0..(Len(hay) - Len(needle)) : SubSeq(hay, i + 1, i + Len(needle)) = needle

\* a < b, by code point, a proper prefix first
RECURSIVE StrLess(_, _)
StrLess(a, b) ==
    IF b = <<>> THEN FALSE
    ELSE IF a = <<>> THEN TRUE
    ELSE IF Head(a) # Head(b) THEN Head(a) < Head(b)
    ELSE StrLess(Tail(a), Tail(b))

\* sep.join(parts)
RECURSIVE Join(_, _)
Join(sep, parts) ==
    IF parts = <<>> THEN <<>>
    ELSE IF Len(parts) = 1 THEN parts[1]
    ELSE parts[1] \o sep \o Join(sep, Tail(parts))

-----------------------------------------------------------------------------
(* Configuration: the names fetch_events.py imports from events_config.    *)
(* Their values are deployment settings; small ones are chosen here.       *)

NEIGHBORHOOD == <<80, 66>>          \* "PB"
CITY == <<83, 68>>                  \* "SD"
CENTER_LAT == 32
CENTER_LON == -117
\* in hundredths of a mile: the distance of (33, -117) from the center
RADIUS_MILES == 6909
MAX_SEED_PAGES == 2
MAX_FOLLOW_PER_SEED == 2
MAX_EVENTS == 2
FUTURE_DAYS_LIMIT == 2
\* ZoneInfo(TIMEZONE): the configured zone as a fixed offset from UTC, in hours
TzOffset == -8
\* datetime.now(_tz), in hours since the epoch (held fixed during a run)
Now == 96

-----------------------------------------------------------------------------
(* parse_iso_to_local *)

\* A start/end string that some parser accepts. form is
\*   "iso"     a full ISO 8601 timestamp; tz is its zone suffix: "" (none),
\*             "Z" or "-08:00"
\*   "date"    a bare date YYYY-MM-DD (h is its midnight, tz is "")
\*   "lenient" a text only the lenient parser reads (h its time, tz is "")
\* and h is the wall-clock time it names, in hours.
DateStr(form, h, tz) == [t |-> "datestr", form |-> form, h |-> h, tz |-> tz]

\* An aware datetime: the instant in UTC hours, and its zone's offset.
DateTime(utc, off) == [t |-> "datetime", utc |-> utc, off |-> off]

\* the UTC offset a zone suffix names ("Z" is read as "+00:00")
UtcOffsetOf(tz) == IF tz = "-08:00" THEN -8 ELSE 0

\* the value of _tz when ZoneInfo(TIMEZONE) succeeded
Zone == [t |-> "zone", off |-> TzOffset]

parse_iso_to_local(iso_val) ==
    IF ~Truthy(iso_val) THEN None
    ELSE IF iso_val.t # "datestr" THEN None      \* every parser raised
    ELSE \* a value without tzinfo is taken as UTC; then, if _tz, astimezone(_tz)
         DateTime(iso_val.h - UtcOffsetOf(iso_val.tz),
                  IF Truthy(_tz) THEN _tz.off ELSE UtcOffsetOf(iso_val.tz))

\* dt.strftime("%Y-%m-%d"): the local day number
DatePart(dt) == (dt.utc + dt.off) \div 24

-----------------------------------------------------------------------------
(* Event *)

Event(title, start_dt, end_dt, venue, address, price, url, source, lat, lon, raw) ==
    [t |-> "event", title |-> title, start_dt |-> start_dt, end_dt |-> end_dt, venue |-> venue,
     address |-> address, price |-> price, url |-> url, source |-> source,
     lat |-> lat, lon |-> lon, raw_source_url |-> raw]

-----------------------------------------------------------------------------
(* parse_events_from_jsonld *)

IsNone(v) == v.t = "null"
IsRaise(v) == v.t = "raise"
EmptyDict == [t |-> "dict"]

\* _take_first(*vals): the first str that is not blank, stripped
RECURSIVE take_first(_)
take_first(vals) ==
    IF vals = <<>> THEN None
    ELSE IF Head(vals).t = "str" /\ Strip(Head(vals).s) # <<>>
         THEN Str(Strip(Head(vals).s))
    ELSE take_first(Tail(vals))

IsDigit(c) == c >= 48 /\ c <= 57

RECURSIVE DigitsValue(_)
DigitsValue(s) == IF s = <<>> THEN 0 ELSE 10 * DigitsValue(SubSeq(s, 1, Len(s) - 1)) + (s[Len(s)] - 48)

\* float(s) of a str: surrounding blanks are ignored; an optional sign, then
\* digits, "inf"/"infinity" or "nan" in any case. (Literals with a fraction or
\* an exponent are outside the values drawn here.)
ParseFloat(s) ==
    LET Literal(neg, body) ==
            IF body # <<>> /\ \A i \in 1..Len(body) : IsDigit(body[i])
            THEN Float(IF neg THEN 0 - DigitsValue(body) ELSE DigitsValue(body))
            ELSE IF Lower(body) \in {<<105, 110, 102>>,
                                     <<105, 110, 102, 105, 110, 105, 116, 121>>}
            THEN Inf
            ELSE IF Lower(body) = <<110, 97, 110>>
            THEN NaN
            ELSE Raise("ValueError")
        Signed(t) ==
            Literal(t # <<>> /\ Head(t) = 45,
                    IF t # <<>> /\ Head(t) \in {43, 45} THEN Tail(t) ELSE t)
    IN  Signed(Strip(s))

\* float(v)
PyFloat(v) ==
    CASE v.t = "float" -> v
      [] v.t = "str" -> ParseFloat(v.s)
      [] OTHER -> Raise("TypeError")

\* lines 206-211: the pair <<lat, lon>> from loc["geo"]
GeoOf(loc) ==
    LET geo == Or(Get(loc, "geo"), EmptyDict)
    IN  IF ~IsDict(geo) THEN <<None, None>>     \* geo.get raises inside the try
        ELSE LET la == Get(geo, "latitude")
                 lo == Get(geo, "longitude")
                 \* except Exception: lat = lon = None
                 Pair(lat, lon) ==
                     IF IsRaise(lat) THEN <<None, None>>
                     ELSE IF IsRaise(lon) THEN <<None, None>>
                     ELSE <<lat, lon>>
             IN  Pair(IF IsNone(la) THEN None ELSE PyFloat(la),
                      IF IsNone(lo) THEN None ELSE PyFloat(lo))

\* str(v) inside an f-string
Format(v) == IF v.t = "str" THEN v.s ELSE <<78, 111, 110, 101>>   \* "None"

\* lines 220-224 and 229-233, for one offers mapping
OfferPrice(off) ==
    LET cur == Get(off, "priceCurrency")
    IN  take_first(<<IF Truthy(cur)
                       THEN Str(Format(cur) \o <<32>> \o Format(Get(off, "price")))
                       ELSE cur,
                     Get(off, "price"),
                     Get(off, "description")>>)

\* lines 227-235: the first offer of a list that yields a price
RECURSIVE OffersListPrice(_)
OffersListPrice(offs) ==
    IF offs = <<>> THEN None
    ELSE IF IsDict(Head(offs)) /\ Truthy(OfferPrice(Head(offs)))
         THEN OfferPrice(Head(offs))
    ELSE OffersListPrice(Tail(offs))

PriceOf(offers) ==
    IF IsDict(offers) THEN OfferPrice(offers)
    ELSE IF IsList(offers) THEN OffersListPrice(offers.items)
    ELSE None

\* urlparse(u).netloc
Netloc(u) == IF u.t = "url" THEN u.host ELSE ""

\* lines 194-201: the parts of an address mapping that are not empty, joined
AddressText(address) ==
    LET parts == SelectSeq(<<Get(address, "streetAddress"), Get(address, "addressLocality"),
                             Get(address, "addressRegion"), Get(address, "postalCode")>>,
                           Truthy)
        text == Str(Join(<<44, 32>>, [i \in 1..Len(parts) |-> parts[i].s]))
    IN  Or(text, None)

\* lines 250-251 with every ev kept
TitledAlways(ev) == ev

\* lines 250-251: if ev.title: events.append(ev)
Titled(ev) == IF Truthy(ev.title) THEN ev ELSE None

\* The body of the loop at lines 175-251 for one node of type Event: the
\* Event built, None when the title is empty, or the exception raised.
BuildEvent(n, raw_source_url) ==
    LET name == Get(n, "name")
        start == Or(Get(n, "startDate"), Get(n, "startTime"))
        end == Or(Get(n, "endDate"), Get(n, "endTime"))
        url == Or(Get(n, "url"), Get(n, "id"))
        nl == Netloc(Or(url, raw_source_url))
        source_domain == IF nl # "" THEN nl ELSE Netloc(raw_source_url)
        loc == Get(n, "location")
        address == IF IsDict(loc) THEN Get(loc, "address") ELSE None
        \* (loc.get("address") or {}).get("name"): only a mapping has .get
        noGet == IsDict(loc) /\ Truthy(address) /\ ~IsDict(address)
        venue == IF IsDict(loc)
                 THEN take_first(<<Get(loc, "name"),
                                   IF IsDict(address) THEN Get(address, "name") ELSE None>>)
                 ELSE None
        address_text == IF IsDict(loc)
                        THEN IF IsDict(address) THEN AddressText(address)
                             ELSE IF IsStr(address) THEN address
                             ELSE None
                        ELSE IF IsStr(loc) THEN loc
                        ELSE None
        price == PriceOf(Get(n, "offers"))
        Built(geo) ==
            Event(Or(name, Str(<<>>)),
                  IF Truthy(start) THEN start ELSE None,
                  IF Truthy(end) THEN end ELSE None,
                  venue, address_text, price,
                  IF Truthy(url) THEN url ELSE raw_source_url,
                  IF source_domain # "" THEN [t |-> "host", h |-> source_domain] ELSE None,
                  geo[1], geo[2], raw_source_url)
        Kept(ev) == IF noGet THEN Raise("AttributeError") ELSE Titled(ev)
    IN  Kept(Built(IF IsDict(loc) THEN GeoOf(loc) ELSE <<None, None>>))

List(items) == [t |-> "list", items |-> items]

\* parse_events_from_jsonld(objs, raw_source_url), objs given as its nodes of
\* type Event in the order _iter_nodes yields them: the list of Events, or
\* the exception of the first node that raises.
RECURSIVE parse_events_from_jsonld(_, _)
parse_events_from_jsonld(nodes, raw_source_url) ==
    IF nodes = <<>> THEN List(<<>>)
    ELSE LET Cons(ev, rest) ==
                 IF IsRaise(ev) THEN ev
                 ELSE IF IsRaise(rest) THEN rest
                 ELSE IF IsNone(ev) THEN rest
                 ELSE List(<<ev>> \o rest.items)
         IN  Cons(BuildEvent(Head(nodes), raw_source_url),
                  parse_events_from_jsonld(Tail(nodes), raw_source_url))

-----------------------------------------------------------------------------
(* Filters & utilities *)

\* sin, cos and asin are not integer arithmetic: the formula of lines 258-263
\* is tabulated, in hundredths of a mile, at the whole-degree points drawn
\* here, from (32, -117).
HaversineTable(p) ==
    CASE p = <<32, -117, 0, -117>> -> 221101
      [] p = <<32, -117, 0, 0>> -> 778304
      [] p = <<32, -117, 32, -117>> -> 0
      [] p = <<32, -117, 32, 0>> -> 639941
      [] p = <<32, -117, 33, -117>> -> 6909
      [] p = <<32, -117, 33, 0>> -> 635420
      [] p = <<32, -117, 34, -117>> -> 13819
      [] p = <<32, -117, 34, 0>> -> 630896

\* haversine_miles(lat1, lon1, lat2, lon2), (lat1, lon1) being finite:
\* math.sin of an infinity raises ValueError, a NaN propagates
haversine_miles(lat1, lon1, lat2, lon2) ==
    IF lat2.cls = "inf" \/ lon2.cls = "inf" THEN Raise("ValueError")
    ELSE IF lat2.cls = "nan" \/ lon2.cls = "nan" THEN NaN
    ELSE Float(HaversineTable(<<lat1.v, lon1.v, lat2.v, lon2.v>>))

\* the str of an Optional[str] field after "or ''"
TextOf(v) == IF v.t = "str" /\ Truthy(v) THEN v.s ELSE <<>>

\* lines 272-276: the fallback heuristic on text
TextMatch(ev) ==
    LET parts == SelectSeq(<<TextOf(ev.venue), TextOf(ev.address)>>, LAMBDA x : x # <<>>)
        text == Lower(Join(<<32>>, parts))
    IN  Contains(Lower(NEIGHBORHOOD), text) \/ Contains(Lower(CITY), text)

in_geofence_lt(ev) ==
    IF ~IsNone(ev.lat) /\ ~IsNone(ev.lon)
    THEN LET d == haversine_miles(Float(CENTER_LAT), Float(CENTER_LON), ev.lat, ev.lon)
         IN  IF IsRaise(d) THEN TRUE
             ELSE d.cls = "fin" /\ d.v < RADIUS_MILES
    ELSE TextMatch(ev)

in_geofence(ev) ==
    IF ~IsNone(ev.lat) /\ ~IsNone(ev.lon)
    THEN LET d == haversine_miles(Float(CENTER_LAT), Float(CENTER_LON), ev.lat, ev.lon)
         IN  IF IsRaise(d) THEN TRUE            \* except Exception: return True
             ELSE d.cls = "fin" /\ d.v <= RADIUS_MILES   \* nan <= x is False
    ELSE TextMatch(ev)

\* True, False, or the TypeError of ordering the aware start against
\* datetime.now(), which is naive when _tz is None
within_future_window(ev) ==
    LET start == parse_iso_to_local(ev.start_dt)
    IN  IF IsNone(start) THEN Bool(TRUE)
        ELSE IF ~Truthy(_tz) THEN Raise("TypeError")
        ELSE Bool(start.utc >= Now - 24 /\ start.utc <= Now + 24 * FUTURE_DAYS_LIMIT)

\* line 456: [ev for ev in filtered if within_future_window(ev)]
WindowFilter(events) ==
    IF \E i \in 1..Len(events) : IsRaise(within_future_window(events[i]))
    THEN Raise("TypeError")
    ELSE List(SelectSeq(events, LAMBDA e : within_future_window(e).v))

\* dedupe_events.key
DedupeKey(ev) ==
    LET start == parse_iso_to_local(ev.start_dt)
    IN  <<Lower(Strip(ev.title.s)),
          IF IsNone(start) THEN <<>> ELSE <<DatePart(start)>>>>

\* dedupe_events.score
Score(e) ==
    Cardinality({i \in 1..8 :
        Truthy(<<e.venue, e.address, e.price, e.url, e.source, e.lat, e.lon, e.end_dt>>[i])})

\* the position of key k in the insertion-ordered dict seen, 0 if absent
KeyIndex(seen, k) ==
    IF \E i \in 1..Len(seen) : seen[i][1] = k
    THEN CHOOSE i \in 1..Len(seen) : seen[i][1] = k
    ELSE 0

\* lines 321-330: the dict seen after the loop over events
RECURSIVE DedupeLoop(_, _)
DedupeLoop(seen, events) ==
    IF events = <<>> THEN seen
    ELSE LET ev == Head(events)
             k == DedupeKey(ev)
             i == KeyIndex(seen, k)
         IN  IF i = 0 THEN DedupeLoop(Append(seen, <<k, ev>>), Tail(events))
             ELSE IF Score(ev) > Score(seen[i][2])
                  THEN DedupeLoop([seen EXCEPT ![i] = <<k, ev>>], Tail(events))
             ELSE DedupeLoop(seen, Tail(events))

dedupe_events(events) ==
    LET seen == DedupeLoop(<<>>, events)
    IN  [i \in 1..Len(seen) |-> seen[i][2]]

\* sort_events.sort_key: (dt or datetime.max, title.lower()). datetime.max
\* has no tzinfo; every parsed dt has one.
SortKey(ev) ==
    LET dt == parse_iso_to_local(ev.start_dt)
    IN  [aware |-> ~IsNone(dt),
         utc |-> IF IsNone(dt) THEN 0 ELSE dt.utc,
         title |-> Lower(ev.title.s)]

\* k1 < k2 on the key tuples: "lt", "ge", or "TypeError" when an aware
\* datetime is ordered against the naive datetime.max
KeyLess(k1, k2) ==
    IF k1.aware # k2.aware THEN "TypeError"
    ELSE IF k1.aware /\ k1.utc # k2.utc
         THEN IF k1.utc < k2.utc THEN "lt" ELSE "ge"
    ELSE IF StrLess(k1.title, k2.title) THEN "lt" ELSE "ge"

\* x put into the sorted list s after every element it is not less than
RECURSIVE SortInsert(_, _)
SortInsert(s, x) ==
    IF s.items = <<>> THEN List(<<x>>)
    ELSE LET last == s.items[Len(s.items)]
             c == KeyLess(SortKey(x), SortKey(last))
         IN  IF c = "TypeError" THEN Raise("TypeError")
             ELSE IF c = "ge" THEN List(Append(s.items, x))
             ELSE LET r == SortInsert(List(SubSeq(s.items, 1, Len(s.items) - 1)), x)
                  IN  IF IsRaise(r) THEN r ELSE List(Append(r.items, last))

RECURSIVE SortLoop(_, _)
SortLoop(done, rest) ==
    IF IsRaise(done) \/ rest = <<>> THEN done
    ELSE SortLoop(SortInsert(done, Head(rest)), Tail(rest))

\* sorted(events, key=sort_key): the stable sort, or the TypeError of a
\* comparison
sort_events(events) == SortLoop(List(<<>>), events)

\* lines 454-459 of crawl_events, the four reduction steps
ReduceSortFirst(events) ==
    LET Sorted(f3) == IF IsRaise(f3) THEN f3 ELSE List(dedupe_events(f3.items))
        Windowed(f2) == IF IsRaise(f2) THEN f2 ELSE Sorted(sort_events(f2.items))
    IN  Windowed(WindowFilter(SelectSeq(events, in_geofence)))

Reduce(events) ==
    LET Windowed(f2) == IF IsRaise(f2) THEN f2 ELSE sort_events(dedupe_events(f2.items))
    IN  Windowed(WindowFilter(SelectSeq(events, in_geofence)))

\* lines 461-462: the cap
CapNone(evs) == evs

Cap(evs) == IF Len(evs) > MAX_EVENTS THEN SubSeq(evs, 1, MAX_EVENTS) ELSE evs

-----------------------------------------------------------------------------
(* discover_event_links_from_jsonld *)

\* urljoin(base_url, url): an absolute url as it is, a relative one on the
\* base's host
urljoin(base_url, url) == IF url.host # "" THEN url ELSE Url(base_url.host, url.path)

\* lines 146-151: the url of one itemListElement entry
ItemUrl(it) ==
    IF ~IsDict(it) THEN None
    ELSE IF Truthy(Get(it, "url")) THEN Get(it, "url")
    ELSE IF IsDict(Get(it, "item"))
         THEN Or(Get(Get(it, "item"), "url"), Get(Get(it, "item"), "id"))
    ELSE Get(it, "url")

\* lines 141-153: links, from the itemListElement entries of the page's
\* ItemList / SearchResultsPage nodes in the order _iter_nodes yields them
RECURSIVE CollectLinks(_, _)
CollectLinks(items, base_url) ==
    IF items = <<>> THEN <<>>
    ELSE (IF Truthy(ItemUrl(Head(items)))
          THEN <<urljoin(base_url, ItemUrl(Head(items)))>> ELSE <<>>)
         \o CollectLinks(Tail(items), base_url)

\* lines 155-162: de-dup in order, leaving the loop once limit is reached
RECURSIVE OrderedLoop(_, _, _)
OrderedLoop(ordered, ls, limit) ==
    IF ls = <<>> THEN ordered
    ELSE LET u == Head(ls)
             o2 == IF \E i \in 1..Len(ordered) : ordered[i] = u
                   THEN ordered ELSE Append(ordered, u)
         IN  IF Len(o2) >= limit THEN o2
             ELSE OrderedLoop(o2, Tail(ls), limit)

discover_event_links_from_jsonld(items, base_url, limit) ==
    OrderedLoop(<<>>, CollectLinks(items, base_url), limit)

-----------------------------------------------------------------------------
(* The pages fetch can return: each is what extract_jsonld_objects and       *)
(* _iter_nodes find in it, nodes (those of type Event) and items (the        *)
(* itemListElement entries), both in document order.                         *)

Page(nodes, items) == [nodes |-> nodes, items |-> items]
Dict(fields) == [t |-> "dict"] @@ fields

S1 == Url("s1", "/")
S2 == Url("s2", "/")
S3 == Url("s3", "/")

\* "a", ISO start without zone, at a venue "sd"
NodeA == Dict([name |-> Str(<<97>>), startDate |-> DateStr("iso", 99, ""),
               location |-> Dict([name |-> Str(<<115, 100>>)])])
\* "A ", a bare date on the same local day, with address, coordinates, url
NodeA2 == Dict([name |-> Str(<<65, 32>>), startTime |-> DateStr("date", 96, ""),
                url |-> Url("x", "/a"),
                location |-> Dict([name |-> Str(<<115, 100>>),
                                   address |-> Dict([addressLocality |-> Str(<<83, 68>>)]),
                                   geo |-> Dict([latitude |-> Float(32),
                                                 longitude |-> Str(<<45, 49, 49, 55>>)])])])
\* "b", location a plain text "SD"
NodeB == Dict([name |-> Str(<<98>>), startDate |-> DateStr("iso", 101, "Z"),
               location |-> Str(<<83, 68>>)])
\* "c", on the radius, offers a price
NodeC == Dict([name |-> Str(<<99>>), startDate |-> DateStr("iso", 92, "-08:00"),
               offers |-> Dict([price |-> Str(<<53>>)]),
               location |-> Dict([geo |-> Dict([latitude |-> Float(33),
                                                longitude |-> Float(-117)])])])
\* "u", no start
NodeU == Dict([name |-> Str(<<117>>), location |-> Str(<<112, 98>>)])
\* location.address a plain string "1 sd"
NodeStrAddr == Dict([name |-> Str(<<100>>), startDate |-> DateStr("iso", 99, ""),
                     location |-> Dict([address |-> Str(<<49, 32, 115, 100>>)])])
\* no name
NodeNoTitle == Dict([startDate |-> DateStr("iso", 99, ""), location |-> Str(<<83, 68>>)])
\* "f", far from the center
NodeFar == Dict([name |-> Str(<<102>>), startDate |-> DateStr("iso", 99, ""),
                 location |-> Dict([name |-> Str(<<115, 100>>),
                                    geo |-> Dict([latitude |-> Float(0),
                                                  longitude |-> Float(0)])])])
\* "o", started two days ago
NodeOld == Dict([name |-> Str(<<111>>), startDate |-> DateStr("iso", 48, ""),
                 location |-> Str(<<83, 68>>)])

ItemD1 == Dict([url |-> Url("", "/d1")])
ItemD2 == Dict([item |-> Dict([url |-> Url("x", "/d2")])])
ItemD3 == Dict([item |-> Dict([id |-> Url("", "/d3")])])

Pages ==
    { Page(<<>>, <<>>),
      Page(<<NodeA>>, <<>>),
      Page(<<NodeB, NodeC>>, <<ItemD1, ItemD1, ItemD2>>),
      Page(<<NodeA2, NodeNoTitle>>, <<>>),
      Page(<<NodeU>>, <<ItemD1>>),
      Page(<<NodeStrAddr>>, <<>>),
      Page(<<NodeFar, NodeOld>>, <<ItemD3, Str(<<120>>), ItemD2, ItemD1>>) }

SeedConfigs == { <<>>, <<S1>>, <<S1, S2>>, <<S1, S2, S3>> }

-----------------------------------------------------------------------------
(* crawl_events *)

Min(a, b) == IF a < b THEN a ELSE b

\* SOURCE_PAGES[:MAX_SEED_PAGES]
seeds == SubSeq(SOURCE_PAGES, 1, Min(Len(SOURCE_PAGES), MAX_SEED_PAGES))

\* line 449, with > for >=
CapReachedGt(evs) == Len(evs) > MAX_EVENTS

\* line 449
CapReached(evs) == Len(evs) >= MAX_EVENTS

\* one call of fetch: what it returned (ok: a page; page is None otherwise),
\* for which seed, and len(all_events) when it was made
Call(url, kind, ok, page) ==
    [url |-> url, kind |-> kind, ok |-> ok, page |-> page,
     seed |-> seedIdx, n |-> Len(all_events)]

\* the values the pure-function specifications hold while a crawl runs
IdleReduce ==
    /\ inList = <<>> /\ deduped = <<>> /\ sorted = List(<<>>)
    /\ once = List(<<>>) /\ twice = List(<<>>)
IdleBuild == node = EmptyDict /\ built = List(<<>>) /\ accepted = "unset" /\ phase = "crawl"
IdleWindow == windowEv = None /\ windowOut = None
IdleLinks == linkItems = <<>> /\ linkLimit = 0 /\ linkOut = <<>>

Init ==
    /\ _tz \in {None, Zone}
    /\ SOURCE_PAGES \in SeedConfigs
    /\ pc = "seed" /\ seedIdx = 1 /\ links = <<>> /\ all_events = <<>>
    /\ filtered = <<>> /\ fetched = <<>> /\ err = ""
    /\ IdleReduce /\ IdleBuild /\ IdleWindow /\ IdleLinks

\* an exception leaves crawl_events
Raised(exc) ==
    /\ pc' = "raised" /\ err' = exc.exc
    /\ UNCHANGED <<seedIdx, links, all_events>>

\* lines 446-450, with evs accumulated: the pause, then break or the next seed
EndOfSeed(evs) ==
    /\ all_events' = evs /\ links' = <<>>
    /\ IF CapReached(evs)
       THEN pc' = "filter" /\ seedIdx' = seedIdx
       ELSE pc' = "seed" /\ seedIdx' = seedIdx + 1

\* lines 427-429: fetch(seed) returns None
SeedFetchFails ==
    /\ pc = "seed" /\ seedIdx <= Len(seeds)
    /\ fetched' = Append(fetched, Call(seeds[seedIdx], "seed", FALSE, None))
    /\ seedIdx' = seedIdx + 1
    /\ UNCHANGED <<_tz, SOURCE_PAGES, pc, links, all_events, filtered, err>>

\* lines 427-437: fetch(seed) returns a page
SeedFetched ==
    /\ pc = "seed" /\ seedIdx <= Len(seeds)
    /\ \E page \in Pages :
          /\ fetched' = Append(fetched, Call(seeds[seedIdx], "seed", TRUE, page))
          /\ LET seed == seeds[seedIdx]
                 Parsed(direct, ls) ==
                     IF IsRaise(direct) THEN Raised(direct)
                     ELSE IF ls = <<>> THEN EndOfSeed(all_events \o direct.items)
                     ELSE /\ all_events' = all_events \o direct.items
                          /\ links' = ls /\ pc' = "links" /\ seedIdx' = seedIdx
             IN  Parsed(parse_events_from_jsonld(page.nodes, seed),
                        discover_event_links_from_jsonld(page.items, seed,
                                                         MAX_FOLLOW_PER_SEED))
    /\ UNCHANGED <<_tz, SOURCE_PAGES, filtered>>
    /\ IF pc' = "raised" THEN TRUE ELSE err' = err

\* lines 439-441: fetch(link) returns None
LinkFetchFails ==
    /\ pc = "links"
    /\ fetched' = Append(fetched, Call(Head(links), "detail", FALSE, None))
    /\ IF Tail(links) = <<>> THEN EndOfSeed(all_events)
       ELSE links' = Tail(links) /\ UNCHANGED <<pc, seedIdx, all_events>>
    /\ UNCHANGED <<_tz, SOURCE_PAGES, filtered, err>>

\* lines 439-444 with the detail page mined for links as a seed page is
LinkFetchedMining ==
    /\ pc = "links"
    /\ \E page \in Pages :
          /\ fetched' = Append(fetched, Call(Head(links), "detail", TRUE, page))
          /\ LET more == discover_event_links_from_jsonld(page.items, Head(links),
                                                          MAX_FOLLOW_PER_SEED)
                 Parsed(evs) ==
                     IF IsRaise(evs) THEN Raised(evs)
                     ELSE IF Tail(links) \o more = <<>>
                          THEN EndOfSeed(all_events \o evs.items)
                     ELSE /\ all_events' = all_events \o evs.items
                          /\ links' = Tail(links) \o more /\ UNCHANGED <<pc, seedIdx>>
             IN  Parsed(parse_events_from_jsonld(page.nodes, seeds[seedIdx]))
    /\ UNCHANGED <<_tz, SOURCE_PAGES, filtered>>
    /\ IF pc' = "raised" THEN TRUE ELSE err' = err

\* lines 439-444: fetch(link) returns a page
LinkFetched ==
    /\ pc = "links"
    /\ \E page \in Pages :
          /\ fetched' = Append(fetched, Call(Head(links), "detail", TRUE, page))
          /\ LET Parsed(evs) ==
                     IF IsRaise(evs) THEN Raised(evs)
                     ELSE IF Tail(links) = <<>> THEN EndOfSeed(all_events \o evs.items)
                     ELSE /\ all_events' = all_events \o evs.items
                          /\ links' = Tail(links) /\ UNCHANGED <<pc, seedIdx>>
             IN  Parsed(parse_events_from_jsonld(page.nodes, seeds[seedIdx]))
    /\ UNCHANGED <<_tz, SOURCE_PAGES, filtered>>
    /\ IF pc' = "raised" THEN TRUE ELSE err' = err

\* line 426: the seeds are exhausted
SeedsExhausted ==
    /\ pc = "seed" /\ seedIdx > Len(seeds)
    /\ pc' = "filter"
    /\ UNCHANGED <<_tz, SOURCE_PAGES, seedIdx, links, all_events, filtered, fetched, err>>

\* lines 452-463: filter, dedupe, sort, cap, return
Finish ==
    /\ pc = "filter"
    /\ LET Return(r) ==
               IF IsRaise(r) THEN Raised(r) /\ filtered' = filtered
               ELSE /\ filtered' = Cap(r.items) /\ pc' = "done"
                    /\ UNCHANGED <<seedIdx, links, all_events, err>>
       IN  Return(Reduce(all_events))
    /\ UNCHANGED <<_tz, SOURCE_PAGES, fetched>>

Next ==
    \/ (SeedFetchFails /\ UNCHANGED <<reduceVars, buildVars, windowVars, linkVars>>)
    \/ (SeedFetched /\ UNCHANGED <<reduceVars, buildVars, windowVars, linkVars>>)
    \/ (LinkFetchFails /\ UNCHANGED <<reduceVars, buildVars, windowVars, linkVars>>)
    \/ (LinkFetched /\ UNCHANGED <<reduceVars, buildVars, windowVars, linkVars>>)
    \/ (SeedsExhausted /\ UNCHANGED <<reduceVars, buildVars, windowVars, linkVars>>)
    \/ (Finish /\ UNCHANGED <<reduceVars, buildVars, windowVars, linkVars>>)

Spec == Init /\ [][Next]_vars

-----------------------------------------------------------------------------
(* dedupe_events, sort_events and the reduction pipeline on drawn lists *)

\* the longest input list drawn
MaxListLen == 3

EvUrl == Url("x", "/e")
EvHost == [t |-> "host", h |-> "x"]
Ev(title, start_dt, end_dt, venue, address, price, lat, lon) ==
    Event(Str(title), start_dt, end_dt, venue, address, price, EvUrl, EvHost, lat, lon, S1)

\* "a" at 99h, venue "sd"
EvA == Ev(<<97>>, DateStr("iso", 99, ""), None, Str(<<115, 100>>), None, None, None, None)
\* "A " on the same local day (bare date), with address, end and coordinates
EvA2 == Ev(<<65, 32>>, DateStr("date", 96, ""), DateStr("iso", 100, ""), Str(<<115, 100>>),
           Str(<<83, 68>>), None, Float(32), Float(-117))
\* "a" later that day, with a price
EvA3 == Ev(<<97>>, DateStr("iso", 103, ""), None, Str(<<115, 100>>), None, Str(<<53>>),
           None, None)
\* "b" at 101h UTC
EvB == Ev(<<98>>, DateStr("iso", 101, "Z"), None, None, Str(<<83, 68>>), None, None, None)
\* "u" without a start
EvU == Ev(<<117>>, None, None, None, Str(<<112, 98>>), None, None, None)
\* "u" without a start, at latitude 0.0, longitude 0.0
EvU0 == Ev(<<117>>, None, None, None, Str(<<112, 98>>), None, Float(0), Float(0))
\* "B" whose start "TBA" no parser reads
EvT == Ev(<<66>>, Str(<<84, 66, 65>>), None, Str(<<115, 100>>), None, None, None, None)
\* "f" outside the radius
EvFar == Ev(<<102>>, DateStr("lenient", 99, ""), None, Str(<<115, 100>>), None, None,
            Float(34), Float(-117))
\* "o" started two days ago
EvOld == Ev(<<111>>, DateStr("iso", 48, ""), None, Str(<<115, 100>>), None, None, None, None)

EventSamples == {EvA, EvA2, EvA3, EvB, EvU, EvU0, EvT, EvFar, EvOld}

\* the lists over S of length at most n
ListsUpTo(S, n) == UNION {[1..k -> S] : k \in 0..n}

IdleCrawl ==
    /\ SOURCE_PAGES = <<>> /\ pc = "idle" /\ seedIdx = 1 /\ links = <<>>
    /\ all_events = <<>> /\ filtered = <<>> /\ fetched = <<>> /\ err = ""

InitReduce ==
    /\ _tz \in {None, Zone}
    /\ inList \in ListsUpTo(EventSamples, MaxListLen)
    /\ phase = "in" /\ deduped = <<>> /\ sorted = List(<<>>)
    /\ once = List(<<>>) /\ twice = List(<<>>)
    /\ IdleCrawl /\ IdleWindow /\ IdleLinks
    /\ node = EmptyDict /\ built = List(<<>>) /\ accepted = "unset"

ApplyDedupe ==
    /\ phase = "in" /\ phase' = "deduped"
    /\ deduped' = dedupe_events(inList)
    /\ UNCHANGED <<inList, sorted, once, twice>>

ApplySort ==
    /\ phase = "in" /\ phase' = "sorted"
    /\ sorted' = sort_events(inList)
    /\ UNCHANGED <<inList, deduped, once, twice>>

ApplyReduce ==
    /\ phase = "in" /\ phase' = "once"
    /\ once' = Reduce(inList)
    /\ UNCHANGED <<inList, deduped, sorted, twice>>

\* the same four steps on the result of the first application
ApplyReduceAgain ==
    /\ phase = "once" /\ ~IsRaise(once) /\ phase' = "twice"
    /\ twice' = Reduce(once.items)
    /\ UNCHANGED <<inList, deduped, sorted, once>>

NextReduce ==
    \/ (ApplyDedupe /\ UNCHANGED <<crawlVars, node, built, accepted, windowVars, linkVars>>)
    \/ (ApplySort /\ UNCHANGED <<crawlVars, node, built, accepted, windowVars, linkVars>>)
    \/ (ApplyReduce /\ UNCHANGED <<crawlVars, node, built, accepted, windowVars, linkVars>>)
    \/ (ApplyReduceAgain /\ UNCHANGED <<crawlVars, node, built, accepted, windowVars, linkVars>>)

SpecReduce == InitReduce /\ [][NextReduce]_vars

-----------------------------------------------------------------------------
(* parse_events_from_jsonld and in_geofence on drawn nodes *)

\* a key that may be absent: no field, or the field with one of vs
Opt(k, vs) == {[x \in {} |-> None]} \cup {(k :> v) : v \in vs}

LatitudeValues ==
    { Float(32), Float(33), Float(34), Float(0),
      Str(<<51, 51>>),                  \* "33"
      Str(<<97, 98, 99>>),              \* "abc"
      Str(<<73, 110, 102>>),            \* "Inf"
      NaN,
      EmptyDict }
LongitudeValues ==
    { Float(-117), Float(0),
      Str(<<32, 45, 49, 49, 55, 32>>),  \* " -117 "
      Str(<<120>>),                     \* "x"
      Inf }
GeoValues ==
    { Str(<<120>>) } \cup
    { Dict(la @@ lo) : la \in Opt("latitude", LatitudeValues),
                       lo \in Opt("longitude", LongitudeValues) }
AddressValues ==
    { Str(<<>>), Str(<<49, 32, 115, 100>>),                 \* "", "1 sd"
      Dict([addressLocality |-> Str(<<83, 68>>), postalCode |-> Str(<<57>>)]),
      Dict([name |-> Str(<<112, 98>>), streetAddress |-> Str(<<>>)]) }
LocationValues ==
    { Str(<<83, 68>>), Str(<<108, 97>>) } \cup           \* "SD", "la"
    { Dict(nm @@ ad @@ ge) :
        nm \in Opt("name", {Str(<<108, 97>>), Str(<<32, 115, 100, 32>>)}),   \* "la", " sd "
        ad \in Opt("address", AddressValues),
        ge \in Opt("geo", GeoValues) }
NameValues == { Str(<<97>>), Str(<<>>), Str(<<32>>), EmptyDict }     \* "a", "", " ", {}
NodeValues ==
    { Dict(nm @@ lc) : nm \in Opt("name", NameValues),
                       lc \in Opt("location", LocationValues) }

InitBuild ==
    /\ node \in NodeValues
    /\ phase = "node" /\ built = List(<<>>) /\ accepted = "unset"
    /\ _tz = Zone /\ IdleCrawl /\ IdleWindow /\ IdleLinks
    /\ inList = <<>> /\ deduped = <<>> /\ sorted = List(<<>>)
    /\ once = List(<<>>) /\ twice = List(<<>>)

\* parse_events_from_jsonld on the page S1 holding the one node
ApplyParse ==
    /\ phase = "node" /\ phase' = "built"
    /\ built' = parse_events_from_jsonld(<<node>>, S1)
    /\ UNCHANGED <<node, accepted>>

\* line 454 for the Event built
ApplyGeofence ==
    /\ phase = "built" /\ ~IsRaise(built) /\ built.items # <<>>
    /\ phase' = "fenced"
    /\ accepted' = IF in_geofence(built.items[1]) THEN "yes" ELSE "no"
    /\ UNCHANGED <<node, built>>

NextBuild ==
    \/ (ApplyParse /\ UNCHANGED <<crawlVars, reduceVars, windowVars, linkVars>>)
    \/ (ApplyGeofence /\ UNCHANGED <<crawlVars, reduceVars, windowVars, linkVars>>)

SpecBuild == InitBuild /\ [][NextBuild]_vars

-----------------------------------------------------------------------------
(* within_future_window on drawn starts *)

\* the hours drawn before the window opens and after it closes
MaxSlack == 30

\* the hours a drawn start names
StartHours == (Now - 24 - MaxSlack)..(Now + 24 * FUTURE_DAYS_LIMIT + MaxSlack)

StartValues ==
    { None, Str(<<>>), Str(<<84, 66, 65>>) } \cup                    \* "", "TBA"
    { DateStr("iso", h, tz) : h \in StartHours, tz \in {"", "Z", "-08:00"} } \cup
    { DateStr("date", h, "") : h \in {x \in StartHours : x % 24 = 0} } \cup
    { DateStr("lenient", h, "") : h \in StartHours }

InitWindow ==
    /\ _tz \in {None, Zone}
    /\ windowEv \in { Ev(<<97>>, start, None, None, None, None, None, None) :
                         start \in StartValues }
    /\ windowOut = None /\ phase = "start"
    /\ IdleCrawl /\ IdleReduce /\ IdleLinks
    /\ node = EmptyDict /\ built = List(<<>>) /\ accepted = "unset"

ApplyWindow ==
    /\ phase = "start" /\ phase' = "windowed"
    /\ windowOut' = within_future_window(windowEv)
    /\ UNCHANGED windowEv

NextWindow ==
    ApplyWindow /\ UNCHANGED <<crawlVars, reduceVars, node, built, accepted, linkVars>>

SpecWindow == InitWindow /\ [][NextWindow]_vars

-----------------------------------------------------------------------------
(* discover_event_links_from_jsonld on drawn entries and limits *)

\* the longest itemListElement drawn
MaxItems == 3
\* the largest limit drawn
MaxLimit == 3

\* an entry whose url is absolute and names the page /d1 of S1
ItemAbs == Dict([url |-> Url("s1", "/d1")])
\* an entry without url or item
ItemBare == Dict([name |-> Str(<<120>>)])

ItemValues == {ItemD1, ItemD2, ItemD3, ItemAbs, ItemBare, Str(<<120>>)}

InitLinks ==
    /\ linkItems \in ListsUpTo(ItemValues, MaxItems)
    /\ linkLimit \in 0..MaxLimit
    /\ linkOut = <<>> /\ phase = "items"
    /\ _tz = Zone /\ IdleCrawl /\ IdleReduce /\ IdleWindow
    /\ node = EmptyDict /\ built = List(<<>>) /\ accepted = "unset"

ApplyDiscover ==
    /\ phase = "items" /\ phase' = "linked"
    /\ linkOut' = discover_event_links_from_jsonld(linkItems, S1, linkLimit)
    /\ UNCHANGED <<linkItems, linkLimit>>

NextLinks ==
    ApplyDiscover /\ UNCHANGED <<crawlVars, reduceVars, node, built, accepted, windowVars>>

SpecLinks == InitLinks /\ [][NextLinks]_vars

-----------------------------------------------------------------------------
(* Properties of crawl_events (checked under Spec) *)

\* A failed fetch adds no Event, a failed seed fetch is followed by no detail
\* fetch of that seed, and the calls after it are still made: the next call
\* is for the next link of the same seed or for a later seed.
FailedFetchContributesNothing ==
    \A i \in 1..Len(fetched) :
        ~fetched[i].ok =>
            /\ i < Len(fetched) =>
                  /\ fetched[i + 1].n = fetched[i].n
                  /\ fetched[i].kind = "seed" =>
                        (fetched[i + 1].kind = "seed" /\ fetched[i + 1].seed = fetched[i].seed + 1)
            /\ i = Len(fetched) => Len(all_events) = fetched[i].n

\* C1: a failed fetch is never fatal: it contributes no Event and the loop
\* goes on, and for every pattern of fetch successes and failures the crawl
\* reaches the filtering stage and returns a list (no exception leaves
\* crawl_events).
C1_FetchFailureNeverFatal ==
    /\ FailedFetchContributesNothing
    /\ pc # "raised"

\* C2: a seed is fetched only while fewer than MAX_EVENTS Events are
\* accumulated, so that once a seed has finished with the cap reached no
\* further seed and no further detail link is fetched and the crawl goes on to
\* filtering; detail links are fetched only for the seed just fetched.
C2_EarlyTermination ==
    /\ \A i \in 1..Len(fetched) :
          /\ fetched[i].kind = "seed" => fetched[i].n < MAX_EVENTS
          /\ fetched[i].kind = "detail" =>
                /\ i > 1 /\ fetched[i - 1].seed = fetched[i].seed
                /\ fetched[i - 1].kind = "seed" => fetched[i - 1].ok
    /\ (pc = "seed" /\ seedIdx <= Len(seeds)) => Len(all_events) < MAX_EVENTS
    /\ (pc \in {"filter", "done"} /\ Len(all_events) >= MAX_EVENTS) =>
          /\ seedIdx <= Len(seeds)
          /\ \A i \in 1..Len(fetched) : fetched[i].seed <= seedIdx

\* the crawl returned after the cap was reached with a seed left unfetched
C2_Witness ==
    /\ pc = "done" /\ Len(all_events) >= MAX_EVENTS
    /\ seedIdx < Len(seeds)
    /\ \A i \in 1..Len(fetched) : fetched[i].seed = 1

\* C3: the list crawl_events returns has at most MAX_EVENTS elements.
C3_ReturnedAtMostCap == pc = "done" => Len(filtered) <= MAX_EVENTS

\* a crawl of one seed overshot the cap, more than MAX_EVENTS Events survived
\* the reduction, and the returned list was cut to MAX_EVENTS
C3_Witness ==
    /\ pc = "done" /\ Len(all_events) > MAX_EVENTS
    /\ Len(Reduce(all_events).items) > MAX_EVENTS
    /\ Len(filtered) = MAX_EVENTS
    /\ \A i \in 1..Len(fetched) : fetched[i].seed = 1

-----------------------------------------------------------------------------
(* Properties of dedupe_events, sort_events and the pipeline (SpecReduce) *)

\* a field counts as non-empty when it is present and not the empty string
NonEmpty(v) == ~IsNone(v) /\ ~(v.t = "str" /\ v.s = <<>>)

\* the completeness score as the count of non-empty fields
CompletenessScore(e) ==
    Cardinality({i \in 1..8 :
        NonEmpty(<<e.venue, e.address, e.price, e.url, e.source, e.lat, e.lon, e.end_dt>>[i])})

\* among the Events of inList sharing a key exactly one is in deduped, and it
\* is the first in input order of those with the highest score
DedupeKeepsBest(score(_)) ==
    \A j \in 1..Len(inList) :
        LET k == DedupeKey(inList[j])
            group == {i \in 1..Len(inList) : DedupeKey(inList[i]) = k}
            top == {i \in group : \A h \in group : score(inList[h]) <= score(inList[i])}
            best == CHOOSE i \in top : \A h \in top : i <= h
            kept == {i \in 1..Len(deduped) : DedupeKey(deduped[i]) = k}
        IN  /\ Cardinality(kept) = 1
            /\ \A i \in kept : deduped[i] = inList[best]

\* C4: among the Events sharing one identity key exactly one is kept, the one
\* with the highest completeness score (count of non-empty among venue,
\* address, price, url, source, lat, lon, end), the first of them on a tie; the
\* kept Event is an unmodified input Event.
C4_DedupeKeepsMostComplete == phase = "deduped" => DedupeKeepsBest(CompletenessScore)

\* what dedupe_events does: the same with the score counting truthy fields
\* (a coordinate 0.0 is not counted)
DedupeKeepsMostTruthy == phase = "deduped" => DedupeKeepsBest(Score)

Known(e) == ~IsNone(parse_iso_to_local(e.start_dt))
Count(l, e) == Cardinality({i \in 1..Len(l) : l[i] = e})

\* l is a permutation of inList, non-decreasing by parsed start, the Events of
\* unknown start after the others and by lowercased title among themselves
SortedKnownFirst(l) ==
    /\ Len(l) = Len(inList)
    /\ \A i \in 1..Len(inList) : Count(l, inList[i]) = Count(inList, inList[i])
    /\ \A i, j \in 1..Len(l) :
          i < j =>
             /\ Known(l[j]) => Known(l[i])
             /\ (Known(l[i]) /\ Known(l[j])) =>
                   parse_iso_to_local(l[i].start_dt).utc <= parse_iso_to_local(l[j].start_dt).utc
             /\ (~Known(l[i]) /\ ~Known(l[j])) =>
                   ~StrLess(Lower(l[j].title.s), Lower(l[i].title.s))

\* C5: for every input list the output of sort_events is a permutation of the
\* input, non-decreasing by parsed start time, with every Event of unparsable
\* start after every Event of parsable start, those ordered by lowercased
\* title among themselves.
C5_SortedKnownBeforeUnknown ==
    phase = "sorted" => (~IsRaise(sorted) /\ SortedKnownFirst(sorted.items))

\* what sort_events does: the order holds whenever a list is returned
SortedWhenReturned ==
    (phase = "sorted" /\ ~IsRaise(sorted)) => SortedKnownFirst(sorted.items)

\* C6: the sort order is total: sort_events completes without error on every
\* list, in particular one mixing parsable and unparsable starts.
C6_SortNeverRaises == phase = "sorted" => ~IsRaise(sorted)

\* C7: the four reduction steps applied to the result of their first
\* application give that result again, same Events in the same order.
C7_ReduceIdempotent == phase = "twice" => twice = once

\* a first application that dropped a duplicate and reordered, applied again
C7_Witness ==
    /\ phase = "twice"
    /\ Len(once.items) >= 2 /\ Len(once.items) < Len(inList)
    /\ once.items[1] # inList[1]
    /\ \E i, j \in 1..Len(inList) : i # j /\ DedupeKey(inList[i]) = DedupeKey(inList[j])

-----------------------------------------------------------------------------
(* Properties of parse_events_from_jsonld and in_geofence (SpecBuild) *)

TheEvent == built.items[1]
HasEvent == phase \in {"built", "fenced"} /\ ~IsRaise(built) /\ built.items # <<>>

\* C8: every Event built has lat and lon both present or both absent.
C8_LatLonBothOrNeither == HasEvent => (IsNone(TheEvent.lat) <=> IsNone(TheEvent.lon))

\* a coordinate value of the markup that float() rejects, or that is not finite
BadCoordinate(v) ==
    ~IsNone(v) /\ (IsRaise(PyFloat(v)) \/ PyFloat(v).cls # "fin")

\* the node's location carries geo markup that is malformed
MalformedGeo(n) ==
    /\ IsDict(Get(n, "location")) /\ Truthy(Get(Get(n, "location"), "geo"))
    /\ LET geo == Get(Get(n, "location"), "geo")
       IN  \/ ~IsDict(geo)
           \/ BadCoordinate(Get(geo, "latitude"))
           \/ BadCoordinate(Get(geo, "longitude"))

\* C9: an Event whose coordinates in the markup are malformed is accepted by
\* the geofence stage, whatever its venue and address say.
C9_MalformedCoordsAccepted == (phase = "fenced" /\ MalformedGeo(node)) => accepted = "yes"

HasCoords(ev) == ~IsNone(ev.lat) /\ ~IsNone(ev.lon)
DistanceOf(ev) == haversine_miles(Float(CENTER_LAT), Float(CENTER_LON), ev.lat, ev.lon)
WithinRadius(ev) ==
    ~IsRaise(DistanceOf(ev)) /\ DistanceOf(ev).cls = "fin" /\ DistanceOf(ev).v <= RADIUS_MILES

\* the lowercased neighborhood or city name is in the lowercased venue and
\* address, put together
NamedInText(ev) ==
    LET v == TextOf(ev.venue)
        a == TextOf(ev.address)
        text == Lower(IF v # <<>> /\ a # <<>> THEN v \o <<32>> \o a ELSE v \o a)
    IN  \E name \in {NEIGHBORHOOD, CITY} :
            \E i \in 1..(Len(text) + 1) :
                /\ i + Len(name) - 1 <= Len(text)
                /\ \A h \in 1..Len(name) : text[i + h - 1] = LowerChar(name[h])

\* C10 as stated: with coordinates, accepted iff the distance is at most
\* RADIUS_MILES; without, iff the neighborhood or city name is in the text.
C10_GeofenceRule ==
    phase = "fenced" =>
        IF HasCoords(TheEvent)
        THEN accepted = "yes" <=> WithinRadius(TheEvent)
        ELSE accepted = "yes" <=> NamedInText(TheEvent)

\* C10 amended: with both coordinates, accepted iff the distance computation
\* fails (a coordinate is infinite) or the distance is at most RADIUS_MILES;
\* lacking either coordinate, iff the neighborhood or city name is in the text.
C10_GeofenceRuleAmended ==
    phase = "fenced" =>
        IF HasCoords(TheEvent)
        THEN accepted = "yes" <=> (IsRaise(DistanceOf(TheEvent)) \/ WithinRadius(TheEvent))
        ELSE accepted = "yes" <=> NamedInText(TheEvent)

\* an Event exactly on the radius, its text naming neither place, accepted
C10_Witness ==
    /\ phase = "fenced" /\ HasCoords(TheEvent)
    /\ ~IsRaise(DistanceOf(TheEvent)) /\ DistanceOf(TheEvent).cls = "fin"
    /\ DistanceOf(TheEvent).v = RADIUS_MILES
    /\ ~NamedInText(TheEvent)
    /\ accepted = "yes"

-----------------------------------------------------------------------------
(* Properties of within_future_window (SpecWindow) *)

\* a start some parser reads
Parsable(v) == v.t = "datestr"
\* the instant it names, in UTC hours: without a zone suffix it is UTC
InstantOf(v) == IF v.tz = "-08:00" THEN v.h + 8 ELSE v.h
\* now - 1 day <= start <= now + FUTURE_DAYS_LIMIT days
InsideWindow(v) ==
    InstantOf(v) >= Now - 24 /\ InstantOf(v) <= Now + 24 * FUTURE_DAYS_LIMIT

WindowRule ==
    phase = "windowed" =>
        IF Parsable(windowEv.start_dt)
        THEN windowOut = Bool(InsideWindow(windowEv.start_dt))
        ELSE windowOut = Bool(TRUE)

\* C11: an Event whose start is absent or cannot be parsed is accepted; any
\* other is accepted if and only if now - 1 day <= start <= now +
\* FUTURE_DAYS_LIMIT days, both bounds inclusive.
C11_WindowRule == WindowRule

\* what within_future_window does: the rule holds when a zone is configured
WindowRuleWhenZoned == Truthy(_tz) => WindowRule

\* without a zone every parsable start raises
WindowRaisesWithoutZone ==
    (phase = "windowed" /\ ~Truthy(_tz) /\ Parsable(windowEv.start_dt)) =>
        windowOut = Raise("TypeError")

\* the closing boundary is reached and accepted under a configured zone
WindowBoundaryAccepted ==
    /\ phase = "windowed" /\ Truthy(_tz)
    /\ Parsable(windowEv.start_dt)
    /\ InstantOf(windowEv.start_dt) = Now + 24 * FUTURE_DAYS_LIMIT
    /\ windowOut = Bool(TRUE)

-----------------------------------------------------------------------------
(* Properties of discover_event_links_from_jsonld (SpecLinks) *)

\* the elements of l at their first appearance, in order
FirstAppearances(l) ==
    LET first == {i \in 1..Len(l) : \A j \in 1..(i - 1) : l[j] # l[i]}
    IN  [k \in 1..Cardinality(first) |->
            l[CHOOSE i \in first : Cardinality({j \in first : j <= i}) = k]]

\* the absolute URLs the entries name, in document order
UrlsNamed == CollectLinks(linkItems, S1)

\* linkOut holds no URL twice, at most linkLimit URLs, and is the start of
\* the URLs named in the order of their first appearance
LinksWithinLimit ==
    /\ \A i, j \in 1..Len(linkOut) : i # j => linkOut[i] # linkOut[j]
    /\ Len(linkOut) <= linkLimit
    /\ linkOut = SubSeq(FirstAppearances(UrlsNamed), 1, Len(linkOut))
    /\ Len(linkOut) = Min(linkLimit, Len(FirstAppearances(UrlsNamed)))

\* C12: for every input and every limit >= 0, limit = 0 included, the list
\* returned holds no URL twice, at most limit URLs, and the URLs in the order
\* of their first appearance.
C12_LinksWithinLimit == phase = "linked" => LinksWithinLimit

\* what discover_event_links_from_jsonld does: the same for a limit >= 1
LinksWithinPositiveLimit == (phase = "linked" /\ linkLimit >= 1) => LinksWithinLimit

\* limit = 0 returns one URL whenever the entries name any
OneLinkAtLimitZero ==
    (phase = "linked" /\ linkLimit = 0) =>
        Len(linkOut) = (IF UrlsNamed = <<>> THEN 0 ELSE 1)

\* under MAX_FOLLOW_PER_SEED >= 1 a crawl fetches at most that many detail
\* pages for a seed
DetailFetchesPerSeed ==
    \A s \in 1..MAX_SEED_PAGES :
        Cardinality({i \in 1..Len(fetched) : fetched[i].kind = "detail" /\ fetched[i].seed = s})
            <= MAX_FOLLOW_PER_SEED

-----------------------------------------------------------------------------
(* Properties of the title of a built Event (SpecBuild, and Spec) *)

\* the node has no name, or an empty one
NoName(n) == ~("name" \in DOMAIN n) \/ n.name \in {Str(<<>>), EmptyDict, None}

\* C13: parse_events_from_jsonld returns no Event with an empty title: a node
\* of type Event whose name is missing or empty yields no record.
C13_NoEmptyTitle ==
    (phase \in {"built", "fenced"} /\ ~IsRaise(built)) =>
        /\ \A i \in 1..Len(built.items) : built.items[i].title \notin {Str(<<>>), None}
        /\ NoName(node) => built.items = <<>>

\* a node with an empty name was parsed and gave no record
C13_Witness ==
    /\ phase = "built" /\ "name" \in DOMAIN node /\ node.name = Str(<<>>)
    /\ IsStr(Get(node, "location"))
    /\ built = List(<<>>)

\* no Event with an empty title is in a later stage of a crawl
NoEmptyTitleInCrawl ==
    /\ \A i \in 1..Len(all_events) : all_events[i].title \notin {Str(<<>>), None}
    /\ \A i \in 1..Len(filtered) : filtered[i].title \notin {Str(<<>>), None}

-----------------------------------------------------------------------------
(* Properties of the crawl's entry, its fetches and its urls (Spec) *)

\* C14: with an empty seed list crawl_events fails at entry: it never goes on
\* to filtering and never returns a list.
C14_ZeroSeedsFatal == SOURCE_PAGES = <<>> => pc \notin {"filter", "done"}

\* what crawl_events does with no seed: no fetch, no error, the empty list
ZeroSeedsReturnEmpty ==
    SOURCE_PAGES = <<>> =>
        /\ fetched = <<>> /\ pc # "raised"
        /\ pc = "done" => filtered = <<>>

\* the URLs the structured data of the page of call c names
LinksOn(c) == {CollectLinks(c.page.items, c.url)[k] : k \in 1..Len(CollectLinks(c.page.items, c.url))}

\* C15: every URL fetched is a configured seed or a link discovered on a
\* fetched seed page of the same seed; a detail page is not mined for links.
C15_OneLevelOnly ==
    \A i \in 1..Len(fetched) :
        /\ fetched[i].kind = "seed" => fetched[i].url = seeds[fetched[i].seed]
        /\ fetched[i].kind = "detail" =>
              \E j \in 1..(i - 1) :
                  /\ fetched[j].kind = "seed" /\ fetched[j].ok
                  /\ fetched[j].seed = fetched[i].seed
                  /\ fetched[i].url \in LinksOn(fetched[j])

\* a crawl returned after it fetched a detail page that names a link no seed
\* page of the crawl names, and that link was never fetched
C15_Witness ==
    /\ pc = "done"
    /\ \E i \in 1..Len(fetched) :
          /\ fetched[i].kind = "detail" /\ fetched[i].ok
          /\ \E u \in LinksOn(fetched[i]) :
                /\ \A j \in 1..Len(fetched) : fetched[j].url # u
                /\ \A j \in 1..Len(fetched) :
                      (fetched[j].kind = "seed" /\ fetched[j].ok) => u \notin LinksOn(fetched[j])

\* the Events parse_events_from_jsonld builds from the page of call c when
\* given the URL of that page
BuiltOnOwnPage(c) == parse_events_from_jsonld(c.page.nodes, c.url)

\* C16: an Event built from a node with neither url nor @id has as its url the
\* URL of the page the node was found on, on a seed page and on a followed
\* detail page alike: every Event a fetched page added has the url that the
\* builder gives it on that page's own URL.
C16_UrlFallsBackToPage ==
    \A i \in 1..Len(fetched) :
        (fetched[i].ok /\ ~IsRaise(BuiltOnOwnPage(fetched[i]))) =>
            \A k \in 1..Len(BuiltOnOwnPage(fetched[i]).items) :
                all_events[fetched[i].n + k].url = BuiltOnOwnPage(fetched[i]).items[k].url

\* what crawl_events does: the fallback is the URL of the seed, also for an
\* Event found on a detail page
UrlFallsBackToSeed ==
    \A i \in 1..Len(fetched) :
        (fetched[i].ok /\ ~IsRaise(BuiltOnOwnPage(fetched[i]))) =>
            \A k \in 1..Len(BuiltOnOwnPage(fetched[i]).items) :
                all_events[fetched[i].n + k].url =
                    parse_events_from_jsonld(fetched[i].page.nodes,
                                             seeds[fetched[i].seed]).items[k].url

\* a detail page gave an Event from a node without url, whose url is the seed's
DetailEventCarriesSeedUrl ==
    \E i \in 1..Len(fetched) :
        /\ fetched[i].kind = "detail" /\ fetched[i].ok
        /\ Len(all_events) > fetched[i].n
        /\ all_events[fetched[i].n + 1].url = seeds[fetched[i].seed]
        /\ fetched[i].url # seeds[fetched[i].seed]

-----------------------------------------------------------------------------
(* Properties of the location of a built Event (SpecBuild) *)

\* the node's location is a mapping whose address is a plain non-empty string
StringAddress(n) ==
    /\ IsDict(Get(n, "location"))
    /\ Get(Get(n, "location"), "address").t = "str"
    /\ Get(Get(n, "location"), "address").s # <<>>

\* C17: a node whose location is a mapping with a plain non-empty string as
\* address raises no error, and the Event built from it has that string as
\* its address.
C17_StringAddressKept ==
    (phase \in {"built", "fenced"} /\ StringAddress(node)) =>
        /\ ~IsRaise(built)
        /\ \A i \in 1..Len(built.items) :
              built.items[i].address = Get(Get(node, "location"), "address")

\* what parse_events_from_jsonld does with such a node
StringAddressRaises ==
    (phase \in {"built", "fenced"} /\ StringAddress(node)) => built = Raise("AttributeError")

=============================================================================
